---- MODULE Spec2Model ----
(***************************************************************************)
(* Turn Reveal Engine of the arena frontend (frontend/src/App.tsx).        *)
(*                                                                         *)
(* The model covers the App component's reveal scheduler: the WebSocket    *)
(* event handler, processQueue with its two setTimeout callbacks,          *)
(* clearTurnQueue, and the command handlers that touch the same state      *)
(* (onTopicSubmit, launchArena, onReset, onIntervene, onLoadDemo,          *)
(* onLoadDataDemo).  Every handler runs to completion on the single event  *)
(* loop, so each is one action; an async handler is split at its await     *)
(* into an invocation step and a resolution step.                          *)
(*                                                                         *)
(* Spec is the scheduler with its commands.  SpecWs is the transport       *)
(* client of frontend/src/ws.ts (socket events, reconnect backoff,         *)
(* teardown), SpecWsLive adds that due timers fire.  SpecTimed is the      *)
(* scheduler with a clock and the expiry times of its timeouts.  SpecRun   *)
(* adds running rounds: the Run buttons and the auto-advance effect.       *)
(*                                                                         *)
(* Strings are sequences of one-character strings so that String.trim()    *)
(* is computed rather than assumed.                                        *)
(***************************************************************************)
EXTENDS Integers, Sequences, FiniteSets, TLC

(***************************************************************************)
(* Bounds of the model.                                                    *)
(***************************************************************************)
MaxRounds == 2      \* rounds the server may stream
MaxEvents == 3      \* transport events delivered in one behaviour
MaxQueue == 2       \* length of turnQueueRef.current
MaxHuman == 1       \* human turns held in liveTurns
MaxInflight == 1    \* command requests awaiting their HTTP response
MaxAttempts == 8    \* reconnects counted since the last successful open
MaxTimedEvents == 4 \* transport events delivered in one timed behaviour
MaxTicks == 9       \* length of a timed behaviour, in half dwells
MaxGenerations == 4 \* speak() and stop() calls made on useTTS

(***************************************************************************)
(* Values.                                                                 *)
(***************************************************************************)
NoTimer == 0                          \* displayTimerRef.current === null
NoRound == [type |-> "none"]          \* pendingRoundRef.current === null
NoState == [null |-> TRUE]            \* useState<State | null>(null)
NoArg == [type |-> "none"]

RoundNumbers == 1..MaxRounds

\* State: only round_number is kept of the snapshot; it is replaced wholesale.
Snapshot(n) == [round_number |-> n]
Snapshots == {Snapshot(n) : n \in 0..MaxRounds}

\* PublicTurn
Turn(speaker, msg) == [speaker_id |-> speaker, message |-> msg]

\* The turns the server produces in round r: round 1 has two agent turns,
\* every later round one, whose message is r letters long; no message occurs
\* in two rounds.
RoundTurns(r) ==
    IF r = 1 THEN << Turn("a1", <<"A">>), Turn("a2", <<"B">>) >>
    ELSE << Turn("a1", [i \in 1..r |-> "C"]) >>

SeqToSet(s) == {s[i] : i \in DOMAIN s}

\* What the user types into the intervention box.
Inputs == { <<" ", "h", " ">> }

\* The state the server returns in the reply to a command; the handlers
\* store it without looking at it.
HttpResults == {Snapshot(0)}

\* WsRoundEvent, WsTurnEvent, WsStateEvent
RoundEvent(r) ==
    [type |-> "round",
     round_result |-> [round_number |-> r, turns |-> RoundTurns(r)],
     state_snapshot |-> Snapshot(r)]
TurnEvent(t, r) == [type |-> "turn", turn |-> t, round_number |-> r]
StateEvent(s) == [type |-> "state", state_snapshot |-> s]

RoundEvents == {RoundEvent(r) : r \in RoundNumbers}
\* onEvent never reads round_number of a turn event
TurnEvents ==
    UNION { {TurnEvent(t, r) : t \in SeqToSet(RoundTurns(r))} : r \in RoundNumbers }
        \cup {TurnEvent(Turn("human", <<"h">>), 1)}
StateEvents == {StateEvent(s) : s \in Snapshots}
WsEvents == StateEvents \cup TurnEvents \cup RoundEvents

Commands == {"onTopicSubmit", "launchArena", "onReset", "onIntervene",
             "onLoadDemo", "onLoadDataDemo"}

VARIABLES
    state,           \* useState<State | null>: the ApplicationSnapshot
    feed,            \* useState<WsRoundEvent[]>: History
    showReactions,   \* useState(false)
    liveTurns,       \* useState<PublicTurn[]>: LiveDisplayState
    activeTurnIdx,   \* useState(-1)
    appPhase,        \* useState<AppPhase>("setup")
    isAdmin,         \* useState(() => ?admin=... present)
    interveneInput,  \* useState("")
    intervening,     \* useState(false)
    turnQueue,       \* turnQueueRef.current
    pendingRound,    \* pendingRoundRef.current
    displayTimer,    \* displayTimerRef.current: a timer id or NoTimer
    timers,          \* the window's scheduled, not yet fired or cleared timeouts
    inflight,        \* handlers suspended at their await
    mounted,         \* FALSE once the effect cleanup has run
    received,        \* history: number of transport events delivered
    arrived,         \* history: non-human turns delivered since the last reset
    collapsed,       \* history: agent turns removed from liveTurns by finalization
    dwelt,           \* history: turns whose D1 timer has expired
    stream,          \* history: the turn and round events delivered since the last reset
    last,            \* history: the step just taken
    running,         \* useState(false): a run-rounds request is in progress
    socket,          \* ws.ts: readyState of the WebSocket held in socket, or "null"
    active,          \* ws.ts: let active
    reconnectMs,     \* ws.ts: let reconnectMs, in units of 1/Scale ms
    reconnectTimer,  \* ws.ts: let reconnectTimer: a timer id or NoTimer
    wsTimers,        \* the reconnect timeouts scheduled and not yet fired or cleared
    connection,      \* useState<ConnectionStatus>: what the status callback stored
    attempt,         \* history: reconnects scheduled since the last successful open
    openedFrom,      \* history: reconnectMs just before the last successful open
    dropped,         \* history: the current socket has dropped a malformed message
    orphaned,        \* history: connect() replaced a socket that was connecting or open
    wsLast,          \* history: the step the transport client just took
    clock,           \* the time in ms since the component was mounted
    due,             \* the time at which each scheduled timeout of timers expires
    lastArrival,     \* history: the time of the latest delivered event
    audioRef,        \* useTTS: audioRef.current: the speak() call whose Audio it holds, or NoAudio
    generationRef,   \* useTTS: generationRef.current
    calls,           \* useTTS: the speak() calls by their gen: where each is, and its history
    ttsLast          \* history: the step useTTS just took

progVars == << state, feed, showReactions, liveTurns, activeTurnIdx, appPhase,
               isAdmin, interveneInput, intervening, turnQueue, pendingRound,
               displayTimer, timers, inflight, mounted >>
histVars == << received, arrived, collapsed, dwelt, stream, last >>
wsVars == << socket, active, reconnectMs, reconnectTimer, wsTimers, connection,
            attempt, openedFrom, dropped, orphaned, wsLast >>
timedVars == << clock, due, lastArrival >>
ttsVars == << audioRef, generationRef, calls, ttsLast >>
vars == << progVars, histVars, running, wsVars, timedVars, ttsVars >>

(***************************************************************************)
(* Helpers.                                                                *)
(***************************************************************************)
RECURSIVE SelectHuman(_)
\* prev.filter((t) => t.speaker_id === "human")
SelectHuman(s) ==
    IF s = <<>> THEN <<>>
    ELSE IF Head(s).speaker_id = "human" THEN <<Head(s)>> \o SelectHuman(Tail(s))
         ELSE SelectHuman(Tail(s))

RECURSIVE AgentTurns(_)
\* the non-human turns of a sequence, in order
AgentTurns(s) ==
    IF s = <<>> THEN <<>>
    ELSE IF Head(s).speaker_id # "human" THEN <<Head(s)>> \o AgentTurns(Tail(s))
         ELSE AgentTurns(Tail(s))

RECURSIVE TrimStart(_)
TrimStart(s) == IF s # <<>> /\ Head(s) = " " THEN TrimStart(Tail(s)) ELSE s

RECURSIVE TrimEnd(_)
TrimEnd(s) ==
    IF s # <<>> /\ s[Len(s)] = " " THEN TrimEnd(SubSeq(s, 1, Len(s) - 1)) ELSE s

\* String.prototype.trim
Trim(s) == TrimEnd(TrimStart(s))

\* window.setTimeout returns a handle no scheduled timer is using.
NewTimerId(ts) == CHOOSE n \in 1..(Cardinality(ts) + 1) : \A t \in ts : t.id # n

\* kind of the timer displayTimerRef refers to
TimerKind ==
    IF displayTimer = NoTimer THEN "none"
    ELSE IF \E t \in timers : t.id = displayTimer
         THEN (CHOOSE t \in timers : t.id = displayTimer).kind
         ELSE "gone"

(***************************************************************************)
(* The component's mutable state as one record, so that a handler is an    *)
(* operator from the state it finds to the state it leaves and can call    *)
(* processQueue or clearTurnQueue after its own writes.                    *)
(***************************************************************************)
Cur ==
    [state |-> state, feed |-> feed, showReactions |-> showReactions,
     liveTurns |-> liveTurns, activeTurnIdx |-> activeTurnIdx,
     appPhase |-> appPhase, interveneInput |-> interveneInput,
     intervening |-> intervening, turnQueue |-> turnQueue,
     pendingRound |-> pendingRound, displayTimer |-> displayTimer,
     timers |-> timers]

Set(a) ==
    /\ state' = a.state
    /\ feed' = a.feed
    /\ showReactions' = a.showReactions
    /\ liveTurns' = a.liveTurns
    /\ activeTurnIdx' = a.activeTurnIdx
    /\ appPhase' = a.appPhase
    /\ interveneInput' = a.interveneInput
    /\ intervening' = a.intervening
    /\ turnQueue' = a.turnQueue
    /\ pendingRound' = a.pendingRound
    /\ displayTimer' = a.displayTimer
    /\ timers' = a.timers

\* processQueue without the check of displayTimerRef at its top
processQueue_noTimerCheck(a) ==
    IF a.turnQueue # <<>> THEN
        LET next == Head(a.turnQueue)
            id == NewTimerId(a.timers)
        IN [a EXCEPT !.turnQueue = Tail(a.turnQueue),
                     !.showReactions = FALSE,
                     !.liveTurns = Append(a.liveTurns, next),
                     !.displayTimer = id,
                     !.timers = a.timers \cup {[id |-> id, kind |-> "D1", ev |-> NoRound]}]
    ELSE IF a.pendingRound # NoRound THEN
        LET id == NewTimerId(a.timers)
        IN [a EXCEPT !.displayTimer = id,
                     !.timers = a.timers \cup
                         {[id |-> id, kind |-> "D2", ev |-> a.pendingRound]}]
    ELSE a

\* processQueue taking the most recently queued turn instead of the oldest
processQueue_lifo(a) ==
    IF a.displayTimer # NoTimer THEN a
    ELSE IF a.turnQueue # <<>> THEN
        LET next == a.turnQueue[Len(a.turnQueue)]
            id == NewTimerId(a.timers)
        IN [a EXCEPT !.turnQueue = SubSeq(a.turnQueue, 1, Len(a.turnQueue) - 1),
                     !.showReactions = FALSE,
                     !.liveTurns = Append(a.liveTurns, next),
                     !.displayTimer = id,
                     !.timers = a.timers \cup {[id |-> id, kind |-> "D1", ev |-> NoRound]}]
    ELSE IF a.pendingRound # NoRound THEN
        LET id == NewTimerId(a.timers)
        IN [a EXCEPT !.displayTimer = id,
                     !.timers = a.timers \cup
                         {[id |-> id, kind |-> "D2", ev |-> a.pendingRound]}]
    ELSE a

\* processQueue (App.tsx 85-110), up to the point where it returns; the two
\* setTimeout callbacks are TurnDwellCallback and FinalizeCallback below.
processQueue(a) ==
    IF a.displayTimer # NoTimer THEN a                      \* timer already active
    ELSE IF a.turnQueue # <<>> THEN
        LET next == Head(a.turnQueue)
            id == NewTimerId(a.timers)
        IN [a EXCEPT !.turnQueue = Tail(a.turnQueue),
                     !.showReactions = FALSE,
                     !.liveTurns = Append(a.liveTurns, next),
                     !.displayTimer = id,
                     !.timers = a.timers \cup {[id |-> id, kind |-> "D1", ev |-> NoRound]}]
    ELSE IF a.pendingRound # NoRound THEN
        LET id == NewTimerId(a.timers)
        IN [a EXCEPT !.displayTimer = id,
                     !.timers = a.timers \cup
                         {[id |-> id, kind |-> "D2", ev |-> a.pendingRound]}]
    ELSE a

\* the callback of the first setTimeout (App.tsx 92-95)
TurnDwellCallback(a) == processQueue([a EXCEPT !.displayTimer = NoTimer])

\* the callback of the second setTimeout (App.tsx 99-108); ev is the round
\* event captured when the timer was set
\* the callback of the second setTimeout without its setLiveTurns
FinalizeCallback_keepsLiveTurns(a, ev) ==
    [a EXCEPT !.displayTimer = NoTimer,
              !.pendingRound = NoRound,
              !.activeTurnIdx = Len(ev.round_result.turns) - 1,
              !.showReactions = TRUE,
              !.feed = Append(a.feed, ev),
              !.state = ev.state_snapshot]

\* the callback of the second setTimeout installing the snapshot of the
\* round event received last instead of the captured one
FinalizeCallback_latestSnapshot(a, ev) ==
    [a EXCEPT !.displayTimer = NoTimer,
              !.pendingRound = NoRound,
              !.liveTurns = SelectHuman(a.liveTurns),
              !.activeTurnIdx = Len(ev.round_result.turns) - 1,
              !.showReactions = TRUE,
              !.feed = Append(a.feed, ev),
              !.state = a.pendingRound.state_snapshot]

\* Reading ev.round_result.turns of a value without round_result throws a
\* TypeError, which ends the callback after its first three statements.
FinalizeCallback(a, ev) ==
    IF "round_result" \in DOMAIN ev
    THEN [a EXCEPT !.displayTimer = NoTimer,
                   !.pendingRound = NoRound,
                   !.liveTurns = SelectHuman(a.liveTurns),
                   !.activeTurnIdx = Len(ev.round_result.turns) - 1,
                   !.showReactions = TRUE,
                   !.feed = Append(a.feed, ev),
                   !.state = ev.state_snapshot]
    ELSE [a EXCEPT !.displayTimer = NoTimer,
                   !.pendingRound = NoRound,
                   !.liveTurns = SelectHuman(a.liveTurns)]

\* clearTurnQueue dropping the timer handle without clearTimeout
clearTurnQueue_noCancel(a) ==
    [a EXCEPT !.turnQueue = <<>>,
              !.pendingRound = NoRound,
              !.displayTimer = NoTimer]

\* clearTurnQueue (App.tsx 112-119)
clearTurnQueue(a) ==
    [a EXCEPT !.turnQueue = <<>>,
              !.pendingRound = NoRound,
              !.timers = IF a.displayTimer # NoTimer
                         THEN {t \in a.timers : t.id # a.displayTimer}
                         ELSE a.timers,
              !.displayTimer = NoTimer]

\* onEvent without the human-echo filter of line 209
onEvent_noEchoFilter(a, event) ==
    IF event.type = "state" THEN [a EXCEPT !.state = event.state_snapshot]
    ELSE IF event.type = "turn" THEN
        processQueue(
            [a EXCEPT !.appPhase = IF ~isAdmin /\ a.appPhase = "setup"
                                   THEN "arena" ELSE a.appPhase,
                      !.showReactions = FALSE,
                      !.turnQueue = Append(a.turnQueue, event.turn)])
    ELSE processQueue([a EXCEPT !.pendingRound = event])

\* onEvent applying a round event's snapshot on arrival
onEvent_eagerSnapshot(a, event) ==
    IF event.type = "state" THEN [a EXCEPT !.state = event.state_snapshot]
    ELSE IF event.type = "turn" THEN
        IF event.turn.speaker_id = "human" THEN a
        ELSE processQueue(
                [a EXCEPT !.appPhase = IF ~isAdmin /\ a.appPhase = "setup"
                                       THEN "arena" ELSE a.appPhase,
                          !.showReactions = FALSE,
                          !.turnQueue = Append(a.turnQueue, event.turn)])
    ELSE processQueue([a EXCEPT !.pendingRound = event,
                                !.state = event.state_snapshot])

\* onEvent whose state branch lacks its return and falls through to the
\* round branch
onEvent_stateFallsThrough(a, event) ==
    IF event.type = "state"
    THEN processQueue([a EXCEPT !.state = event.state_snapshot,
                                !.pendingRound = event])
    ELSE IF event.type = "turn" THEN
        IF event.turn.speaker_id = "human" THEN a
        ELSE processQueue(
                [a EXCEPT !.appPhase = IF ~isAdmin /\ a.appPhase = "setup"
                                       THEN "arena" ELSE a.appPhase,
                          !.showReactions = FALSE,
                          !.turnQueue = Append(a.turnQueue, event.turn)])
    ELSE processQueue([a EXCEPT !.pendingRound = event])

\* the onEvent callback handed to createWsClient (App.tsx 202-223)
onEvent(a, event) ==
    IF event.type = "state" THEN [a EXCEPT !.state = event.state_snapshot]
    ELSE IF event.type = "turn" THEN
        IF event.turn.speaker_id = "human" THEN a
        ELSE processQueue(
                [a EXCEPT !.appPhase = IF ~isAdmin /\ a.appPhase = "setup"
                                       THEN "arena" ELSE a.appPhase,
                          !.showReactions = FALSE,
                          !.turnQueue = Append(a.turnQueue, event.turn)])
    ELSE processQueue([a EXCEPT !.pendingRound = event])

\* getState().then(...) of the mount effect (App.tsx 192-196)
getStateOk(a, data) == [a EXCEPT !.state = data]

\* onTopicSubmit after its await (App.tsx 313-314)
onTopicSubmitOk(a, result) == [a EXCEPT !.state = result, !.feed = <<>>]

\* launchArena after its awaits (App.tsx 450-453)
launchArenaOk(a, result) ==
    [a EXCEPT !.state = result, !.feed = <<>>, !.appPhase = "arena"]

\* onReset without setLiveTurns([])
onResetOk_keepsLiveTurns(a, result) ==
    LET b == clearTurnQueue([a EXCEPT !.state = result,
                                      !.feed = <<>>,
                                      !.activeTurnIdx = -1,
                                      !.showReactions = FALSE])
    IN [b EXCEPT !.appPhase = "setup"]

\* onReset after its await (App.tsx 475-486)
onResetOk(a, result) ==
    LET b == clearTurnQueue([a EXCEPT !.state = result,
                                      !.feed = <<>>,
                                      !.activeTurnIdx = -1,
                                      !.showReactions = FALSE,
                                      !.liveTurns = <<>>])
    IN [b EXCEPT !.appPhase = "setup"]

\* onIntervene up to its await (App.tsx 493-499)
onInterveneStart(a) == [a EXCEPT !.intervening = TRUE]

\* onIntervene showing the turn a second time after the reply
onInterveneOk_twice(a, msg) ==
    [a EXCEPT !.liveTurns = a.liveTurns \o << Turn("human", msg), Turn("human", msg) >>,
              !.interveneInput = <<>>,
              !.intervening = FALSE]

\* onIntervene after its await, then the finally block (App.tsx 501-503, 507)
onInterveneOk(a, msg) ==
    [a EXCEPT !.liveTurns = Append(a.liveTurns, Turn("human", msg)),
              !.interveneInput = <<>>,
              !.intervening = FALSE]

\* onIntervene when the request is rejected: catch, then finally (504-508)
onInterveneFail(a) == [a EXCEPT !.intervening = FALSE]

\* onLoadDemo after its await (App.tsx 515-523)
onLoadDemoOk(a, result) ==
    LET b == clearTurnQueue([a EXCEPT !.state = result,
                                      !.feed = <<>>,
                                      !.activeTurnIdx = -1,
                                      !.showReactions = FALSE,
                                      !.liveTurns = <<>>])
    IN [b EXCEPT !.appPhase = "arena"]

\* onLoadDataDemo after its await (App.tsx 533-544)
onLoadDataDemoOk(a, result) ==
    LET b == clearTurnQueue([a EXCEPT !.state = result,
                                      !.feed = <<>>,
                                      !.activeTurnIdx = -1,
                                      !.showReactions = FALSE,
                                      !.liveTurns = <<>>])
    IN [b EXCEPT !.appPhase = "arena"]

\* the cleanup returned by the mount effect (App.tsx 227-230); close() stops
\* the transport, so nothing is delivered afterwards
EffectCleanup(a) == clearTurnQueue(a)

(***************************************************************************)
(* The transport client (ws.ts).                                           *)
(***************************************************************************)
BaseMs == 1000                        \* let reconnectMs = 1000
CapMs == 10000                        \* Math.min(10000, ...)
\* reconnectMs is a double; it is held here as a whole number of 1/Scale ms,
\* which represents every value the client computes exactly
Scale == 8

NoData == <<"none">>

\* message.data of the frames the server may send: the three event tags, a
\* JSON number, a truncated object and the empty string
WireData ==
    { <<"{", "s", "}">>, <<"{", "t", "}">>, <<"{", "r", "}">>, <<"7">>,
      <<"{", "t">>, <<>> }

\* JSON.parse over these texts: ok is FALSE where it throws a SyntaxError
JSONparse(text) ==
    IF text = <<>> THEN [ok |-> FALSE]
    ELSE IF Head(text) = "{"
         THEN IF Len(text) = 3 /\ text[3] = "}"
              THEN [ok |-> TRUE,
                    value |-> [type |-> CASE text[2] = "s" -> "state"
                                          [] text[2] = "t" -> "turn"
                                          [] OTHER -> "round"]]
              ELSE [ok |-> FALSE]
         ELSE IF Len(text) = 1 /\ text[1] \in {"7"}
              THEN [ok |-> TRUE, value |-> [number |-> 7]]
              ELSE [ok |-> FALSE]

\* what window.setTimeout does with a fractional delay: it is truncated
SetTimeoutDelay(ms) == ms \div Scale

\* reconnectMs * 1.5
TimesOneAndAHalf(ms) == (3 * ms) \div 2

Min(x, y) == IF x <= y THEN x ELSE y

\* window.setTimeout returns a handle that was never returned before; the
\* only old handles the client can still hold are reconnectTimer and those
\* of the pending timers
NewWsTimerId(w) ==
    CHOOSE n \in 1..(Cardinality(w.wsTimers) + 2) :
        n # w.reconnectTimer /\ \A t \in w.wsTimers : t.id # n

\* the closure variables of createWsClient, the connection status the status
\* callback stores (App.tsx 223) and the callbacks invoked so far in this step
WsCur ==
    [socket |-> socket, active |-> active, reconnectMs |-> reconnectMs,
     reconnectTimer |-> reconnectTimer, wsTimers |-> wsTimers,
     connection |-> connection, calls |-> <<>>]

WsSet(w) ==
    /\ socket' = w.socket
    /\ active' = w.active
    /\ reconnectMs' = w.reconnectMs
    /\ reconnectTimer' = w.reconnectTimer
    /\ wsTimers' = w.wsTimers
    /\ connection' = w.connection

\* onStatus(status): (status) => setConnection(status)
onStatus(w, status) ==
    [w EXCEPT !.connection = status,
              !.calls = Append(@, [fn |-> "onStatus", arg |-> [status |-> status]])]

\* onEvent(parsed); what it does to the scheduler is onEvent(a, event)
onEventCall(w, parsed) ==
    [w EXCEPT !.calls = Append(@, [fn |-> "onEvent", arg |-> parsed])]

\* connect (ws.ts 12-15)
connect(w) ==
    IF ~w.active THEN w
    ELSE [onStatus(w, "connecting") EXCEPT !.socket = "CONNECTING"]

\* socket.onopen that leaves the backoff where it was
onopen_keepsBackoff(w) == onStatus(w, "connected")

\* socket.onopen (ws.ts 17-20)
onopen(w) == onStatus([w EXCEPT !.reconnectMs = BaseMs * Scale], "connected")

\* socket.onmessage whose catch block reports a disconnect
onmessage_reportsFailure(w, data) ==
    LET r == JSONparse(data)
    IN IF r.ok THEN onEventCall(w, r.value) ELSE onStatus(w, "disconnected")

\* socket.onmessage (ws.ts 22-29)
onmessage(w, data) ==
    LET r == JSONparse(data)
    IN IF r.ok THEN onEventCall(w, r.value) ELSE w

\* socket.onerror scheduling a reconnect of its own
onerror_alsoReconnects(w) ==
    LET a == onStatus(w, "disconnected")
        id == NewWsTimerId(a)
    IN [a EXCEPT !.reconnectTimer = id,
                 !.wsTimers = @ \cup {[id |-> id,
                                       delay |-> SetTimeoutDelay(a.reconnectMs)]}]

\* socket.onerror (ws.ts 31-33)
onerror(w) == onStatus(w, "disconnected")

\* socket.onclose that gives up once the backoff has reached its cap
onclose_givesUpAtCap(w) ==
    LET a == onStatus(w, "disconnected")
    IN IF ~a.active \/ a.reconnectMs >= CapMs * Scale THEN a
       ELSE LET id == NewWsTimerId(a)
            IN [a EXCEPT !.reconnectTimer = id,
                         !.wsTimers = @ \cup {[id |-> id,
                                               delay |-> SetTimeoutDelay(a.reconnectMs)]}]

\* socket.onclose (ws.ts 35-42)
onclose(w) ==
    LET a == onStatus(w, "disconnected")
    IN IF ~a.active THEN a
       ELSE LET id == NewWsTimerId(a)
            IN [a EXCEPT !.reconnectTimer = id,
                         !.wsTimers = @ \cup {[id |-> id,
                                               delay |-> SetTimeoutDelay(a.reconnectMs)]}]

\* the reconnect callback growing the backoff by a factor of 2
reconnectCallback_doubles(w) ==
    connect([w EXCEPT !.reconnectMs = Min(CapMs * Scale, 2 * @)])

\* the callback given to setTimeout in onclose (ws.ts 38-41)
reconnectCallback(w) ==
    connect([w EXCEPT !.reconnectMs = Min(CapMs * Scale, TimesOneAndAHalf(@))])

\* the teardown function without its socket.close()
teardown_leavesSocket(w) ==
    LET a == [w EXCEPT !.active = FALSE]
    IN IF a.reconnectTimer # NoTimer
       THEN [a EXCEPT !.wsTimers = {t \in @ : t.id # a.reconnectTimer}]
       ELSE a

\* the teardown function without its clearTimeout
teardown_keepsTimer(w) ==
    LET a == [w EXCEPT !.active = FALSE]
    IN IF a.socket \in {"OPEN", "CONNECTING"} THEN [a EXCEPT !.socket = "CLOSING"]
       ELSE a

\* the function createWsClient returns (ws.ts 47-55)
teardown(w) ==
    LET a == [w EXCEPT !.active = FALSE]
        b == IF a.reconnectTimer # NoTimer
             THEN [a EXCEPT !.wsTimers = {t \in @ : t.id # a.reconnectTimer}]
             ELSE a
    IN IF b.socket \in {"OPEN", "CONNECTING"} THEN [b EXCEPT !.socket = "CLOSING"]
       ELSE b

(***************************************************************************)
(* Speech (hooks/useTTS.ts, the revision that fetches audio).              *)
(***************************************************************************)
NoAudio == 0                          \* audioRef.current === null

\* A speak() call is known by the value of gen it drew.  phase is where the
\* call and its Audio element are: "fetching" (at await getTTSAudio),
\* "discarded" (returned at line 34), "failed" (the fetch was rejected),
\* "starting" (audio.play() called, its promise pending), "playing",
\* "blocked" (play() was rejected), "paused", "ended", "errored".  stale,
\* played and ends are history: the fetch completed after a later speak() or
\* stop(); audio.play() was called; how often onEnd was invoked (2 for more).
NoCall == [phase |-> "none", stale |-> FALSE, played |-> FALSE, ends |-> 0]

TtsCur == [audioRef |-> audioRef, generationRef |-> generationRef, calls |-> calls]

TtsSet(t) ==
    /\ audioRef' = t.audioRef
    /\ generationRef' = t.generationRef
    /\ calls' = t.calls

\* onEnd?.()
onEnd(t, gen) == [t EXCEPT !.calls[gen].ends = Min(@ + 1, 2)]

\* if (audioRef.current) { audioRef.current.pause(); audioRef.current = null; }
\* A pending play() promise is rejected by the pause; its catch block finds
\* a newer generation, because only speak() and stop() pause.
pauseCurrent(t) ==
    IF t.audioRef = NoAudio THEN t
    ELSE [t EXCEPT !.calls[t.audioRef].phase =
                        IF @ \in {"starting", "playing"} THEN "paused" ELSE @,
                   !.audioRef = NoAudio]

\* speak up to its await
speakStart(t) ==
    LET a == pauseCurrent(t)
        gen == a.generationRef + 1
    IN [a EXCEPT !.generationRef = gen,
                 !.calls[gen] = [NoCall EXCEPT !.phase = "fetching"]]

\* speak after its await without the comparison of gen with generationRef
speakFetched_noGenerationCheck(t, gen) ==
    LET a == [t EXCEPT !.calls[gen].stale = (gen # t.generationRef)]
    IN [a EXCEPT !.audioRef = gen,
                 !.calls[gen].phase = "starting",
                 !.calls[gen].played = TRUE]

\* speak after its await, the fetch having succeeded
speakFetched(t, gen) ==
    LET a == [t EXCEPT !.calls[gen].stale = (gen # t.generationRef)]
    IN IF gen # a.generationRef THEN [a EXCEPT !.calls[gen].phase = "discarded"]
       ELSE [a EXCEPT !.audioRef = gen,
                      !.calls[gen].phase = "starting",
                      !.calls[gen].played = TRUE]

\* speak after its await, the fetch having failed: the catch block
speakFetchFailed(t, gen) ==
    LET a == [t EXCEPT !.calls[gen].stale = (gen # t.generationRef),
                       !.calls[gen].phase = "failed"]
    IN IF gen = a.generationRef THEN onEnd(a, gen) ELSE a

\* audio.play() is rejected, e.g. by the autoplay policy: the catch block
playRejected(t, gen) ==
    LET a == [t EXCEPT !.calls[gen].phase = "blocked"]
    IN IF gen = a.generationRef THEN onEnd(a, gen) ELSE a

\* audio.onended
onended(t, gen) ==
    onEnd([t EXCEPT !.audioRef = NoAudio, !.calls[gen].phase = "ended"], gen)

\* audio.onerror; if play() was still pending it is rejected as well and the
\* catch block runs
onerrorAudio(t, gen) ==
    LET a == onEnd([t EXCEPT !.audioRef = NoAudio, !.calls[gen].phase = "errored"], gen)
    IN IF t.calls[gen].phase = "starting" /\ gen = a.generationRef
       THEN onEnd(a, gen) ELSE a

\* stop
stop(t) == pauseCurrent([t EXCEPT !.generationRef = @ + 1])

(***************************************************************************)
(* History variables.                                                      *)
(***************************************************************************)
Step(op, arg) ==
    [op |-> op, arg |-> arg, timerWas |-> TimerKind, queueWas |-> Len(turnQueue),
     liveWas |-> Len(liveTurns)]

LastAgentTurn(s) ==
    LET ag == AgentTurns(s) IN IF ag = <<>> THEN {} ELSE {ag[Len(ag)]}

Request(cmd, arg) == [cmd |-> cmd, arg |-> arg]

\* entries of the history of delivered events
TurnToken(t) == [type |-> "turn", turn |-> t]
RoundToken(r) == [type |-> "round", round_number |-> r]

\* a successful onReset, onLoadDemo or onLoadDataDemo empties the display
\* and the scheduler, so the histories start over
HistCleared(op, arg) ==
    /\ arrived' = <<>>
    /\ collapsed' = <<>>
    /\ dwelt' = {}
    /\ stream' = <<>>
    /\ last' = Step(op, arg)
    /\ UNCHANGED received

HistSame(op, arg) ==
    /\ last' = Step(op, arg)
    /\ UNCHANGED << received, arrived, collapsed, dwelt, stream >>

\* no timer was scheduled in the step
NoDelay == -1

\* the record of a step of the transport client that ends in w
WsStep(op, data, w) ==
    [op |-> op, data |-> data, calls |-> w.calls,
     delay |-> IF w.wsTimers \subseteq wsTimers THEN NoDelay
               ELSE (CHOOSE t \in w.wsTimers \ wsTimers : TRUE).delay,
     socketWas |-> socket, backoffWas |-> reconnectMs, timerWas |-> wsTimers # {}]

Init ==
    /\ state = NoState
    /\ feed = <<>>
    /\ showReactions = FALSE
    /\ liveTurns = <<>>
    /\ activeTurnIdx = -1
    /\ appPhase = "setup"
    /\ isAdmin \in BOOLEAN
    /\ interveneInput = <<>>
    /\ intervening = FALSE
    /\ turnQueue = <<>>
    /\ pendingRound = NoRound
    /\ displayTimer = NoTimer
    /\ timers = {}
    /\ inflight = {Request("getState", NoArg)}
    /\ mounted = TRUE
    /\ received = 0
    /\ arrived = <<>>
    /\ collapsed = <<>>
    /\ dwelt = {}
    /\ stream = <<>>
    /\ last = [op |-> "init", arg |-> NoArg, timerWas |-> "none", queueWas |-> 0,
               liveWas |-> 0]
    /\ running = FALSE
    \* createWsClient has run connect() once (ws.ts 45)
    /\ socket = "CONNECTING"
    /\ active = TRUE
    /\ reconnectMs = BaseMs * Scale
    /\ reconnectTimer = NoTimer
    /\ wsTimers = {}
    /\ connection = "connecting"
    /\ attempt = 0
    /\ openedFrom = 0
    /\ dropped = FALSE
    /\ orphaned = FALSE
    /\ wsLast = [op |-> "connect", data |-> NoData,
                 calls |-> << [fn |-> "onStatus", arg |-> [status |-> "connecting"]] >>,
                 delay |-> NoDelay, socketWas |-> "null",
                 backoffWas |-> BaseMs * Scale, timerWas |-> FALSE]
    /\ clock = 0
    /\ due = << >>
    /\ lastArrival = 0
    /\ audioRef = NoAudio
    /\ generationRef = 0
    /\ calls = [g \in 1..MaxGenerations |-> NoCall]
    /\ ttsLast = [op |-> "init", gen |-> 0]

(***************************************************************************)
(* Actions.                                                                *)
(***************************************************************************)
\* onEvent runs on one decoded event
Receive(event) ==
    /\ Set(onEvent(Cur, event))
    /\ received' = received + 1
    /\ arrived' = IF event.type = "turn" /\ event.turn.speaker_id # "human"
                  THEN Append(arrived, event.turn) ELSE arrived
    /\ stream' = IF event.type = "round"
                 THEN Append(stream, RoundToken(event.round_result.round_number))
                 ELSE IF event.type = "turn" /\ event.turn.speaker_id # "human"
                      THEN Append(stream, TurnToken(event.turn))
                      ELSE stream
    /\ last' = Step("onEvent", event)
    /\ UNCHANGED << isAdmin, inflight, mounted, collapsed, dwelt >>

\* the callback of the D1 timeout t runs
TurnDwellExpiry(t) ==
    /\ t.kind = "D1"
    /\ Set(TurnDwellCallback([Cur EXCEPT !.timers = timers \ {t}]))
    /\ last' = Step("D1", [type |-> "timer", id |-> t.id])
    /\ dwelt' = dwelt \cup LastAgentTurn(liveTurns)
    /\ UNCHANGED << isAdmin, inflight, mounted, received, arrived, collapsed,
                    stream >>

\* the callback of the D2 timeout t runs
FinalizeExpiry(t) ==
    /\ t.kind = "D2"
    /\ Set(FinalizeCallback([Cur EXCEPT !.timers = timers \ {t}], t.ev))
    /\ last' = Step("D2", [type |-> "timer", id |-> t.id])
    /\ collapsed' = collapsed \o AgentTurns(liveTurns)
    /\ UNCHANGED << isAdmin, inflight, mounted, received, arrived, dwelt,
                    stream >>

\* the transport delivers one decoded event to onEvent
Deliver ==
    /\ UNCHANGED << running, wsVars, timedVars, ttsVars >>
    /\ mounted
    /\ received < MaxEvents
    /\ \E event \in WsEvents :
        /\ (event.type = "turn" /\ event.turn.speaker_id # "human")
               => Len(turnQueue) < MaxQueue
        /\ Receive(event)

\* the D1 timeout of a revealed turn expires
TurnDwellExpires ==
    /\ UNCHANGED << running, wsVars, timedVars, ttsVars >>
    /\ mounted
    /\ \E t \in timers : TurnDwellExpiry(t)

\* the D2 timeout of a pending round expires
FinalizeExpires ==
    /\ UNCHANGED << running, wsVars, timedVars, ttsVars >>
    /\ mounted
    /\ \E t \in timers : FinalizeExpiry(t)

\* the user edits the intervention box (disabled while intervening)
TypeIntervention ==
    /\ UNCHANGED << running, wsVars, timedVars, ttsVars >>
    /\ mounted
    /\ appPhase = "arena"
    /\ ~intervening
    /\ \E s \in Inputs :
        /\ s # interveneInput
        /\ interveneInput' = s
    /\ HistSame("type", NoArg)
    /\ UNCHANGED << state, feed, showReactions, liveTurns, activeTurnIdx, appPhase,
                    isAdmin, intervening, turnQueue, pendingRound, displayTimer,
                    timers, inflight, mounted >>

\* where each control is rendered (App.tsx 599-604, 830-836, 972, 1067-1072)
Offered(cmd) ==
    CASE cmd \in {"onTopicSubmit", "launchArena", "onLoadDemo", "onLoadDataDemo"}
            -> isAdmin /\ appPhase = "setup"
      [] cmd = "onReset" -> isAdmin /\ appPhase = "arena"
      [] cmd = "onIntervene" -> appPhase = "arena"

\* a handler other than onIntervene runs up to its await
Invoke ==
    /\ UNCHANGED << running, wsVars, timedVars, ttsVars >>
    /\ mounted
    /\ Cardinality(inflight) < MaxInflight
    /\ \E cmd \in Commands \ {"onIntervene"} :
        /\ Offered(cmd)
        /\ inflight' = inflight \cup {Request(cmd, NoArg)}
        /\ HistSame(cmd, NoArg)
    /\ UNCHANGED << state, feed, showReactions, liveTurns, activeTurnIdx, appPhase,
                    isAdmin, interveneInput, intervening, turnQueue, pendingRound,
                    displayTimer, timers, mounted >>

\* onIntervene is submitted; an empty message or a submission in progress
\* returns at line 494
InvokeIntervene ==
    /\ UNCHANGED << running, wsVars, timedVars, ttsVars >>
    /\ mounted
    /\ Offered("onIntervene")
    /\ Cardinality(inflight) < MaxInflight
    /\ Len(SelectHuman(liveTurns)) < MaxHuman
    /\ Trim(interveneInput) # <<>> /\ ~intervening
    /\ Set(onInterveneStart(Cur))
    /\ inflight' = inflight \cup {Request("onIntervene", [type |-> "msg", msg |-> Trim(interveneInput)])}
    /\ HistSame("onIntervene", [type |-> "msg", msg |-> Trim(interveneInput)])
    /\ UNCHANGED << isAdmin, mounted >>

Resolve(cmd) ==
    /\ mounted
    /\ \E r \in inflight : r.cmd = cmd
    /\ inflight' = {r \in inflight : r.cmd # cmd}
    /\ UNCHANGED << isAdmin, mounted >>

GetStateResolves ==
    /\ UNCHANGED << running, wsVars, timedVars, ttsVars >>
    /\ Resolve("getState")
    /\ \E data \in HttpResults : Set(getStateOk(Cur, data))
    /\ HistSame("getStateOk", NoArg)

TopicSubmitResolves ==
    /\ UNCHANGED << running, wsVars, timedVars, ttsVars >>
    /\ Resolve("onTopicSubmit")
    /\ \E result \in HttpResults : Set(onTopicSubmitOk(Cur, result))
    /\ HistSame("onTopicSubmitOk", NoArg)

LaunchArenaResolves ==
    /\ UNCHANGED << running, wsVars, timedVars, ttsVars >>
    /\ Resolve("launchArena")
    /\ \E result \in HttpResults : Set(launchArenaOk(Cur, result))
    /\ HistSame("launchArenaOk", NoArg)

ResetResolves ==
    /\ UNCHANGED << running, wsVars, timedVars, ttsVars >>
    /\ Resolve("onReset")
    /\ \E result \in HttpResults : Set(onResetOk(Cur, result))
    /\ HistCleared("onResetOk", NoArg)

LoadDemoResolves ==
    /\ UNCHANGED << running, wsVars, timedVars, ttsVars >>
    /\ Resolve("onLoadDemo")
    /\ \E result \in HttpResults : Set(onLoadDemoOk(Cur, result))
    /\ HistCleared("onLoadDemoOk", NoArg)

LoadDataDemoResolves ==
    /\ UNCHANGED << running, wsVars, timedVars, ttsVars >>
    /\ Resolve("onLoadDataDemo")
    /\ \E result \in HttpResults : Set(onLoadDataDemoOk(Cur, result))
    /\ HistCleared("onLoadDataDemoOk", NoArg)

InterveneResolves ==
    /\ UNCHANGED << running, wsVars, timedVars, ttsVars >>
    /\ Resolve("onIntervene")
    /\ \E r \in inflight :
        /\ r.cmd = "onIntervene"
        /\ Set(onInterveneOk(Cur, r.arg.msg))
        /\ HistSame("onInterveneOk", r.arg)

InterveneRejects ==
    /\ UNCHANGED << running, wsVars, timedVars, ttsVars >>
    /\ Resolve("onIntervene")
    /\ Set(onInterveneFail(Cur))
    /\ HistSame("onInterveneFail", NoArg)

\* any other request is rejected: the catch block only sets the error text
Rejects ==
    /\ UNCHANGED << running, wsVars, timedVars, ttsVars >>
    /\ mounted
    /\ \E r \in inflight :
        /\ r.cmd \notin {"onIntervene", "onRun"}
        /\ inflight' = inflight \ {r}
        /\ HistSame("rejected", [type |-> "cmd", cmd |-> r.cmd])
    /\ UNCHANGED << state, feed, showReactions, liveTurns, activeTurnIdx, appPhase,
                    isAdmin, interveneInput, intervening, turnQueue, pendingRound,
                    displayTimer, timers, mounted >>

\* the component unmounts
Teardown ==
    /\ mounted
    /\ mounted' = FALSE
    /\ LET w == teardown(WsCur)
       IN /\ WsSet(w)
          /\ wsLast' = WsStep("teardown", NoData, w)
    /\ Set(EffectCleanup(Cur))
    /\ HistSame("cleanup", NoArg)
    /\ UNCHANGED << isAdmin, inflight, running, attempt, openedFrom, dropped,
                    orphaned, timedVars, ttsVars >>

Next ==
    \/ Deliver
    \/ TurnDwellExpires
    \/ FinalizeExpires
    \/ TypeIntervention
    \/ Invoke
    \/ InvokeIntervene
    \/ GetStateResolves
    \/ TopicSubmitResolves
    \/ LaunchArenaResolves
    \/ ResetResolves
    \/ LoadDemoResolves
    \/ LoadDataDemoResolves
    \/ InterveneResolves
    \/ InterveneRejects
    \/ Rejects
    \/ Teardown

Spec == Init /\ [][Next]_vars

(***************************************************************************)
(* The transport client on its own: the browser's socket events, the       *)
(* reconnect timer and the teardown.                                       *)
(***************************************************************************)
\* the connection is established: readyState becomes OPEN, onopen runs
SocketOpens ==
    /\ socket = "CONNECTING"
    /\ LET w == onopen([WsCur EXCEPT !.socket = "OPEN"])
       IN /\ WsSet(w)
          /\ wsLast' = WsStep("onopen", NoData, w)
    /\ attempt' = 0
    /\ openedFrom' = reconnectMs
    /\ UNCHANGED << progVars, histVars, running, dropped, orphaned, timedVars, ttsVars >>

\* a frame arrives on the open socket
SocketMessage ==
    /\ socket = "OPEN"
    /\ \E data \in WireData :
        LET w == onmessage(WsCur, data)
        IN /\ WsSet(w)
           /\ wsLast' = WsStep("onmessage", data, w)
           /\ dropped' = (dropped \/ ~JSONparse(data).ok)
    /\ UNCHANGED << progVars, histVars, running, attempt, openedFrom, orphaned,
                    timedVars, ttsVars >>

\* how many reconnects have been scheduled once the step has ended in w
Attempts(w) ==
    IF w.wsTimers \subseteq wsTimers THEN attempt ELSE Min(attempt + 1, MaxAttempts)

\* the connection fails, or cannot be established, or close() was called
\* while connecting: one task sets readyState to CLOSED and fires error and
\* then close
SocketFails ==
    /\ socket \in {"CONNECTING", "OPEN", "CLOSING"}
    /\ LET w == onclose(onerror([WsCur EXCEPT !.socket = "CLOSED"]))
       IN /\ WsSet(w)
          /\ wsLast' = WsStep("onerror,onclose", NoData, w)
          /\ attempt' = Attempts(w)
    /\ UNCHANGED << progVars, histVars, running, openedFrom, dropped, orphaned,
                    timedVars, ttsVars >>

\* an established connection is closed by the server or by close()
SocketCloses ==
    /\ socket \in {"OPEN", "CLOSING"}
    /\ LET w == onclose([WsCur EXCEPT !.socket = "CLOSED"])
       IN /\ WsSet(w)
          /\ wsLast' = WsStep("onclose", NoData, w)
          /\ attempt' = Attempts(w)
    /\ UNCHANGED << progVars, histVars, running, openedFrom, dropped, orphaned,
                    timedVars, ttsVars >>

\* a reconnect timeout expires
ReconnectTimerFires ==
    /\ \E t \in wsTimers :
        LET w == reconnectCallback([WsCur EXCEPT !.wsTimers = wsTimers \ {t}])
        IN /\ WsSet(w)
           /\ wsLast' = WsStep("reconnect", NoData, w)
           /\ dropped' = (dropped /\ w.socket # "CONNECTING")
           /\ orphaned' = (orphaned \/ (w.active /\ socket \in {"CONNECTING", "OPEN"}))
    /\ UNCHANGED << progVars, histVars, running, attempt, openedFrom, timedVars, ttsVars >>

NextWs ==
    \/ SocketOpens
    \/ SocketMessage
    \/ SocketFails
    \/ SocketCloses
    \/ ReconnectTimerFires
    \/ Teardown

SpecWs == Init /\ [][NextWs]_vars

\* timers fire: the event loop runs every timeout that is due
SpecWsLive == SpecWs /\ WF_vars(ReconnectTimerFires)

(***************************************************************************)
(* Properties of the reveal scheduler.                                     *)
(***************************************************************************)
ClearOps == {"onResetOk", "onLoadDemoOk", "onLoadDataDemoOk", "cleanup"}

IsEvent(l, type) == l.op = "onEvent" /\ l.arg.type = type
IsHumanEcho(l) == IsEvent(l, "turn") /\ l.arg.turn.speaker_id = "human"

\* C1: a round is in the feed (and its reactions can show) only after every
\* one of its non-human turns has been appended to liveTurns and has seen its
\* D1 timer expire, whatever the order in which the events arrived.
C1_FinalizedOnlyAfterTurnsDwelt ==
    \A i \in DOMAIN feed :
        \A t \in SeqToSet(AgentTurns(feed[i].round_result.turns)) : t \in dwelt

\* C2: with no reset in between, the agent turns taken out of liveTurns by
\* finalization, then the agent turns in liveTurns, then the queued turns are
\* exactly the non-human turns delivered, in arrival order; so a drained
\* queue leaves the arrival sequence on display.
C2_RevealInArrivalOrder ==
    mounted => collapsed \o AgentTurns(liveTurns) \o turnQueue = arrived

\* both turns of round 1 were delivered, queued and revealed, nothing is left
\* in the queue and no round has been finalized
C2_Witness ==
    /\ mounted
    /\ turnQueue = <<>>
    /\ collapsed = <<>>
    /\ arrived = RoundTurns(1)
    /\ AgentTurns(liveTurns) = RoundTurns(1)

\* C3: the step that appends a round to the feed is never the arrival of an
\* event, and the queue is empty in that step.
C3_FinalizeOffArrivalQueueEmpty ==
    [][ Len(feed') = Len(feed) + 1 =>
            /\ last'.op # "onEvent"
            /\ turnQueue = <<>> /\ turnQueue' = <<>> ]_vars

\* C4: a successful onReset leaves the queue empty, no pending round, no
\* timer and an empty liveTurns, whatever the scheduler was doing.
C4_ResetLeavesNothing ==
    last.op = "onResetOk" =>
        /\ turnQueue = <<>>
        /\ pendingRound = NoRound
        /\ displayTimer = NoTimer
        /\ timers = {}
        /\ liveTurns = <<>>

\* onReset resolved while the D2 timer of a round was running and turns were
\* on display
C4_Witness ==
    /\ last.op = "onResetOk"
    /\ last.timerWas = "D2"
    /\ last.liveWas > 0

\* C5: a step that clears the scheduler leaves no timeout scheduled, and
\* while none is scheduled only the arrival of a transport event can schedule
\* one, add a round to the feed or add an agent turn to liveTurns.
C5_NoTimerSurvivesClear ==
    [][ /\ last'.op \in ClearOps => timers' = {}
        /\ (timers = {} /\ last'.op # "onEvent") =>
              /\ timers' = {}
              /\ Len(feed') <= Len(feed)
              /\ Len(AgentTurns(liveTurns')) <= Len(AgentTurns(liveTurns)) ]_vars

\* the scheduler was cleared by a reset or a demo load while a turn was
\* dwelling and another was queued behind it
C5_Witness ==
    /\ last.op \in ClearOps \ {"cleanup"}
    /\ last.timerWas = "D1"
    /\ last.queueWas > 0
    /\ timers = {}

\* C6: after onTopicSubmit, launchArena, onReset, onLoadDemo or
\* onLoadDataDemo has completed successfully the queue is empty, no round is
\* pending and no timer is active.
C6_CommandsClearScheduler ==
    last.op \in {"onTopicSubmitOk", "launchArenaOk", "onResetOk",
                 "onLoadDemoOk", "onLoadDataDemoOk"} =>
        /\ turnQueue = <<>>
        /\ pendingRound = NoRound
        /\ displayTimer = NoTimer

\* C7: a transport turn event of speaker "human" changes nothing of the
\* queue, liveTurns, the pending round, the timer, the reactions flag or the
\* phase, and the number of human turns in liveTurns grows only when
\* onIntervene's request resolves.
C7_HumanEchoDropped ==
    [][ /\ IsHumanEcho(last') =>
              UNCHANGED << turnQueue, liveTurns, pendingRound, displayTimer,
                           timers, showReactions, appPhase >>
        /\ Len(SelectHuman(liveTurns')) > Len(SelectHuman(liveTurns)) =>
              last'.op = "onInterveneOk" ]_vars

\* the echo of a human turn arrived after the local submission had put that
\* turn on display, and it is on display once
C7_Witness ==
    /\ IsHumanEcho(last)
    /\ SelectHuman(liveTurns) = << last.arg.turn >>

\* C8 as stated: the human turn is appended to liveTurns in the step in which
\* onIntervene is invoked with a non-empty message.
C8_AppendedAtSubmission ==
    [][ last'.op = "onIntervene" =>
            liveTurns' = Append(liveTurns, Turn("human", last'.arg.msg)) ]_vars

\* C8 amended: invoking onIntervene leaves liveTurns as it is; the turn, with
\* the trimmed input as its message, is appended once in the step in which the
\* intervene request resolves, and not at all when the request is rejected.
C8_AppendedWhenRequestResolves ==
    [][ /\ last'.op = "onIntervene" =>
              /\ liveTurns' = liveTurns
              /\ last'.arg.msg = Trim(interveneInput)
        /\ last'.op = "onInterveneOk" =>
              liveTurns' = Append(liveTurns, Turn("human", last'.arg.msg))
        /\ last'.op = "onInterveneFail" => liveTurns' = liveTurns ]_vars

\* the request resolved and the trimmed message is the newest turn on display
C8_Witness ==
    /\ last.op = "onInterveneOk"
    /\ liveTurns # <<>>
    /\ liveTurns[Len(liveTurns)] = Turn("human", <<"h">>)

\* C9: the arrival of a round event leaves the snapshot as it is; the D2
\* expiry that appends the round to the feed installs that round's snapshot.
C9_RoundSnapshotAtFinalization ==
    [][ /\ IsEvent(last', "round") => state' = state /\ feed' = feed
        /\ last'.op = "D2" =>
              /\ Len(feed') = Len(feed) + 1
              /\ state' = feed'[Len(feed')].state_snapshot ]_vars

\* a round that arrived while its turn was dwelling has been finalized and
\* its snapshot is the application snapshot
C9_Witness ==
    /\ last.op = "D2"
    /\ feed # <<>>
    /\ dwelt # {}
    /\ state = feed[Len(feed)].state_snapshot

\* C10: a state event installs its snapshot in the step it arrives and
\* changes nothing else.
C10_StateEventOnlySetsSnapshot ==
    [][ IsEvent(last', "state") =>
            /\ state' = last'.arg.state_snapshot
            /\ UNCHANGED << feed, showReactions, liveTurns, activeTurnIdx,
                            appPhase, interveneInput, intervening, turnQueue,
                            pendingRound, displayTimer, timers, inflight >> ]_vars

\* a state event arrived while a round was draining (D2 running) with turns on
\* display
C10_Witness ==
    /\ IsEvent(last, "state")
    /\ last.timerWas = "D2"
    /\ displayTimer # NoTimer
    /\ state = last.arg.state_snapshot

\* the round that produced an agent turn
RoundOf(t) == CHOOSE r \in RoundNumbers : t \in SeqToSet(RoundTurns(r))

\* round numbers of the rounds in the feed, in feed order
FeedRounds == [i \in DOMAIN feed |-> feed[i].round_result.round_number]

RECURSIVE SelectRounds(_)
\* round numbers of the round events in a history, in order
SelectRounds(s) ==
    IF s = <<>> THEN <<>>
    ELSE IF Head(s).type = "round"
         THEN <<Head(s).round_number>> \o SelectRounds(Tail(s))
         ELSE SelectRounds(Tail(s))

RoundsArrived == SelectRounds(stream)

RECURSIVE IsSubsequence(_, _)
\* s can be obtained from t by leaving elements out
IsSubsequence(s, t) ==
    IF s = <<>> THEN TRUE
    ELSE IF t = <<>> THEN FALSE
    ELSE IF Head(s) = Head(t) THEN IsSubsequence(Tail(s), Tail(t))
         ELSE IsSubsequence(s, Tail(t))

RECURSIVE ServerStreamFrom(_)
\* what a server running rounds r, r+1, ... broadcasts: the turns of a round
\* in order, then its round event
ServerStreamFrom(r) ==
    IF r > MaxRounds THEN <<>>
    ELSE [i \in DOMAIN RoundTurns(r) |-> TurnToken(RoundTurns(r)[i])]
            \o << RoundToken(r) >> \o ServerStreamFrom(r + 1)

\* the events delivered since the last reset are what an ordered connection
\* delivers of such a broadcast to a client that may have joined late or been
\* disconnected for a while: nothing twice, nothing out of order
Orderly == IsSubsequence(stream, ServerStreamFrom(1))

\* the agent turns that are queued or on display without having dwelt yet
InReveal == SeqToSet(turnQueue) \cup (SeqToSet(AgentTurns(liveTurns)) \ dwelt)

\* C11: the round number of the snapshot on display is never that of a round
\* one of whose turns is still queued or being revealed.
C11_RoundNumberNotAhead ==
    (state # NoState /\ state.round_number \in RoundNumbers) =>
        \A t \in InReveal : RoundOf(t) # state.round_number

\* C18: the turns in the queue all belong to one round, also when rounds are
\* streamed back to back in order.
C18_QueueHoldsOneRound ==
    Orderly =>
        \A i, j \in DOMAIN turnQueue : RoundOf(turnQueue[i]) = RoundOf(turnQueue[j])

\* C19: for an ordered stream of rounds, the rounds in the feed are in the
\* order their round events arrived, none more often than it arrived, and
\* while a round whose event has arrived is not yet in the feed no turn of a
\* later round is on display.
C19_RoundsInArrivalOrder ==
    Orderly =>
        /\ IsSubsequence(FeedRounds, RoundsArrived)
        /\ \A i \in DOMAIN RoundsArrived :
              RoundsArrived[i] \notin SeqToSet(FeedRounds) =>
                  \A t \in SeqToSet(AgentTurns(liveTurns)) : RoundOf(t) <= RoundsArrived[i]

(***************************************************************************)
(* The transport client's reconnect policy.                                *)
(***************************************************************************)
\* the delays of consecutive reconnects as the specification lists them
ClaimedDelays == << 1000, 1500, 2250, 3375, 5062, 7593, 10000 >>

ExpectedDelay(k) == IF k <= Len(ClaimedDelays) THEN ClaimedDelays[k] ELSE 10000

CloseOps == {"onclose", "onerror,onclose"}

\* C12: the k-th reconnect scheduled since the last successful open (or since
\* the start) waits 1000, 1500, 2250, 3375, 5062, 7593, 10000, 10000, ... ms:
\* 1.5 times the delay before it, truncated, and never more than 10000.
C12_BackoffSequence ==
    \A t \in wsTimers :
        /\ attempt >= 1
        /\ t.delay = ExpectedDelay(attempt)
        /\ t.delay <= 10000
        /\ attempt > 1 =>
              t.delay = Min(10000, (3 * ExpectedDelay(attempt - 1)) \div 2)

C12_Witness == \E t \in wsTimers : attempt = 6 /\ t.delay = 7593

\* C13: a successful open reports connected, and the reconnect scheduled when
\* an open socket closes waits exactly 1000 ms, whatever the backoff was
\* before the open.
C13_OpenResetsBackoff ==
    [][ /\ wsLast'.op = "onopen" =>
              /\ connection' = "connected"
              /\ wsLast'.calls = << [fn |-> "onStatus", arg |-> [status |-> "connected"]] >>
        /\ (socket = "OPEN" /\ active /\ wsLast'.op \in CloseOps) =>
              wsLast'.delay = 1000 ]_vars

C13_Witness ==
    /\ wsLast.op \in CloseOps
    /\ wsLast.socketWas = "OPEN"
    /\ openedFrom > BaseMs * Scale
    /\ wsLast.delay = 1000

\* C14: a close, with or without an error before it, of a client that is not
\* torn down reports disconnected and schedules a reconnect after the current
\* backoff, however many reconnects came before; and a client that is
\* disconnected and not torn down comes to report connecting again.
C14_ReconnectAlwaysScheduled ==
    /\ [][ (active /\ wsLast'.op \in CloseOps) =>
              /\ connection' = "disconnected"
              /\ wsLast'.delay = SetTimeoutDelay(reconnectMs)
              /\ \E t \in wsTimers' : t.id = reconnectTimer' /\ t.delay = wsLast'.delay ]_vars
    /\ (connection = "disconnected" /\ active) ~> (connection = "connecting" \/ ~active)

C14_Witness ==
    /\ connection = "disconnected"
    /\ active
    /\ attempt = MaxAttempts
    /\ wsTimers # {}

\* C15: once the teardown has run no reconnect timer is pending, the socket
\* is closing or closed, and no reconnect runs, so no socket is created.
C15_TeardownStopsEverything ==
    ~active =>
        /\ wsTimers = {}
        /\ socket \in {"CLOSING", "CLOSED"}
        /\ wsLast.op # "reconnect"

C15_Witness == ~active /\ wsLast.op = "teardown" /\ wsLast.timerWas

\* C16: a frame that JSON.parse rejects invokes no callback and changes
\* neither the socket, the backoff, the timers nor the status; a frame that
\* parses, also one that follows a rejected frame, is handed to onEvent.
C16_MalformedDropped ==
    [][ wsLast'.op = "onmessage" =>
            IF JSONparse(wsLast'.data).ok
            THEN wsLast'.calls = << [fn |-> "onEvent", arg |-> JSONparse(wsLast'.data).value] >>
            ELSE /\ wsLast'.calls = << >>
                 /\ socket' = "OPEN"
                 /\ UNCHANGED << socket, active, reconnectMs, reconnectTimer, wsTimers,
                                 connection >> ]_vars

C16_Witness == dropped /\ wsLast.op = "onmessage" /\ JSONparse(wsLast.data).ok

(***************************************************************************)
(* The reveal scheduler with time: every timeout expires when its delay    *)
(* has passed, and events arrive at any moment.                            *)
(***************************************************************************)
TurnDwellMs == 12000                  \* delay of the first setTimeout
FinalizeDwellMs == 12000              \* delay of the second setTimeout

\* a timeout that finalizes as soon as the queue has drained
TimerDelay_noFinalizeDwell(kind) == IF kind = "D1" THEN TurnDwellMs ELSE 0

\* the delay processQueue passes to setTimeout
TimerDelay(kind) == IF kind = "D1" THEN TurnDwellMs ELSE FinalizeDwellMs

\* time passes in steps of half a dwell
TickMs == TurnDwellMs \div 2

\* the round of the scenario: three agent turns
ScenarioTurns == << Turn("a1", <<"A">>), Turn("a2", <<"B">>), Turn("a3", <<"C">>) >>

ScenarioRound ==
    [type |-> "round",
     round_result |-> [round_number |-> 1, turns |-> ScenarioTurns],
     state_snapshot |-> Snapshot(1)]

ScenarioEvents == {TurnEvent(t, 1) : t \in SeqToSet(ScenarioTurns)} \cup {ScenarioRound}

\* the expiry times once a handler has run at time now: the timeouts in kept
\* were scheduled before, every other one by the handler
Expiries(kept, now) ==
    [t \in timers' |-> IF t \in kept THEN due[t] ELSE now + TimerDelay(t.kind)]

\* an event of the scenario arrives now
TimedDeliver ==
    /\ mounted
    /\ received < MaxTimedEvents
    /\ \E event \in ScenarioEvents : Receive(event)
    /\ due' = Expiries(timers, clock)
    /\ lastArrival' = clock
    /\ UNCHANGED << clock, running, wsVars, ttsVars >>

\* time passes up to the expiry of a D1 timeout, whose callback runs
TimedTurnDwellExpires ==
    /\ mounted
    /\ \E t \in timers :
        /\ \A u \in timers : due[t] <= due[u]
        /\ TurnDwellExpiry(t)
        /\ clock' = due[t]
        /\ due' = Expiries(timers \ {t}, due[t])
    /\ UNCHANGED << lastArrival, running, wsVars, ttsVars >>

\* time passes up to the expiry of a D2 timeout, whose callback runs
TimedFinalizeExpires ==
    /\ mounted
    /\ \E t \in timers :
        /\ \A u \in timers : due[t] <= due[u]
        /\ FinalizeExpiry(t)
        /\ clock' = due[t]
        /\ due' = Expiries(timers \ {t}, due[t])
    /\ UNCHANGED << lastArrival, running, wsVars, ttsVars >>

\* time passes without reaching the expiry of a timeout
TimePasses ==
    /\ clock + TickMs <= MaxTicks * TickMs
    /\ \A t \in timers : clock + TickMs < due[t]
    /\ clock' = clock + TickMs
    /\ UNCHANGED << progVars, histVars, due, lastArrival, running, wsVars, ttsVars >>

NextTimed ==
    \/ TimedDeliver
    \/ TimedTurnDwellExpires
    \/ TimedFinalizeExpires
    \/ TimePasses

SpecTimed == Init /\ [][NextTimed]_vars

\* the turns A, B, C of a round and then its round event have all arrived at
\* time 0, and nothing else has
Scenario ==
    /\ stream = << TurnToken(ScenarioTurns[1]), TurnToken(ScenarioTurns[2]),
                   TurnToken(ScenarioTurns[3]), RoundToken(1) >>
    /\ received = 4
    /\ lastArrival = 0

\* the turns on display up to time t of the scenario, D the dwell
VisibleUntil(t) ==
    /\ clock < TurnDwellMs => liveTurns = SubSeq(ScenarioTurns, 1, 1)
    /\ (TurnDwellMs <= clock /\ clock < 2 * TurnDwellMs) =>
           liveTurns = SubSeq(ScenarioTurns, 1, 2)
    /\ (2 * TurnDwellMs <= clock /\ clock < t) => liveTurns = ScenarioTurns
    /\ clock < t => (feed = <<>> /\ ~showReactions)

\* the round of the scenario is in the feed, its reactions show, and the
\* display and the queue are empty
ScenarioFinalized ==
    /\ feed = << ScenarioRound >>
    /\ showReactions
    /\ liveTurns = <<>>
    /\ turnQueue = <<>>

\* C17 as stated: in the scenario A shows from 0, B from D, C from 2D, and
\* from 3D on the round is finalized.
C17_FinalizedAtThreeDwells ==
    Scenario =>
        /\ VisibleUntil(3 * TurnDwellMs)
        /\ clock >= 3 * TurnDwellMs => ScenarioFinalized

\* C17 amended: in the scenario A shows from 0, B from D, C from 2D; at 3D the
\* queue is empty and the finalization timer starts, and the round is
\* finalized from 4D on.
C17_FinalizedAtFourDwells ==
    Scenario =>
        /\ VisibleUntil(3 * TurnDwellMs + FinalizeDwellMs)
        /\ (3 * TurnDwellMs <= clock /\ clock < 3 * TurnDwellMs + FinalizeDwellMs) =>
               (turnQueue = <<>> /\ TimerKind = "D2")
        /\ clock >= 3 * TurnDwellMs + FinalizeDwellMs => ScenarioFinalized

C17_Witness ==
    Scenario /\ clock = 3 * TurnDwellMs + FinalizeDwellMs /\ ScenarioFinalized /\ last.op = "D2"

(***************************************************************************)
(* Running rounds: the Run buttons and the auto-advance effect.            *)
(***************************************************************************)
\* the rounds the Run buttons ask for
RunSizes == {1, 5}

RunArg(n) == [type |-> "rounds", rounds |-> n]

\* the auto-advance effect with a timeout that is pending whenever the
\* reactions show
AutoAdvanceArmed_ignoresRunning(shown, run) == shown

\* the timeout of the auto-advance effect is pending (App.tsx 262-269): the
\* effect runs again, clearing the old timeout, whenever showReactions or
\* running changes
AutoAdvanceArmed(shown, run) == shown /\ ~run

\* onRun up to its await (App.tsx 459-463)
onRunStart(n) ==
    /\ running' = TRUE
    /\ inflight' = inflight \cup {Request("onRun", RunArg(n))}
    /\ UNCHANGED << state, feed, showReactions, liveTurns, activeTurnIdx, appPhase,
                    isAdmin, interveneInput, intervening, turnQueue, pendingRound,
                    displayTimer, timers, mounted, wsVars, timedVars, ttsVars >>

\* onRun after its await: the reply is not used (App.tsx 464-468)
onRunEnd ==
    /\ \E r \in inflight :
        /\ r.cmd = "onRun"
        /\ inflight' = inflight \ {r}
    /\ running' = FALSE
    /\ UNCHANGED << state, feed, showReactions, liveTurns, activeTurnIdx, appPhase,
                    isAdmin, interveneInput, intervening, turnQueue, pendingRound,
                    displayTimer, timers, mounted, wsVars, timedVars, ttsVars >>

\* the admin presses Run 1 or Run 5 (disabled while running)
InvokeRun ==
    /\ mounted
    /\ isAdmin /\ appPhase = "arena"
    /\ ~running
    /\ \E n \in RunSizes :
        /\ onRunStart(n)
        /\ HistSame("onRun", RunArg(n))

\* the timeout of the auto-advance effect expires and calls onRun(1)
AutoAdvanceExpires ==
    /\ mounted
    /\ AutoAdvanceArmed(showReactions, running)
    /\ onRunStart(1)
    /\ HistSame("autoAdvance", RunArg(1))

RunResolves ==
    /\ mounted
    /\ onRunEnd
    /\ HistSame("onRunOk", NoArg)

RunRejects ==
    /\ mounted
    /\ onRunEnd
    /\ HistSame("onRunFail", NoArg)

NextRun ==
    \/ Deliver
    \/ TurnDwellExpires
    \/ FinalizeExpires
    \/ GetStateResolves
    \/ Invoke
    \/ LaunchArenaResolves
    \/ Rejects
    \/ InvokeRun
    \/ AutoAdvanceExpires
    \/ RunResolves
    \/ RunRejects

SpecRun == Init /\ [][NextRun]_vars

\* the steps a user takes: a command handler is invoked
UserOps == Commands \cup {"onRun"}

C21_FinalizationStep ==
    [][ (Orderly /\ last'.op = "D2") =>
            /\ liveTurns' = SelectHuman(liveTurns)
            /\ feed' = Append(feed, pendingRound)
            /\ pendingRound' = NoRound
            /\ displayTimer' = NoTimer /\ timers' = {}
            /\ showReactions' ]_vars

\* C22: at most one timeout is scheduled, and it is the one displayTimer
\* refers to; an event that arrives while it is scheduled pops no turn,
\* leaves liveTurns alone and schedules nothing; a turn is appended to
\* liveTurns only by an arrival that finds no timeout scheduled or by the
\* expiry of the one D1 timeout.
C22_OneTimerGuardsDequeue ==
    [][ /\ Cardinality(timers') <= 1
        /\ \A t \in timers' : t.id = displayTimer'
        /\ (timers # {} /\ last'.op = "onEvent") =>
              /\ liveTurns' = liveTurns
              /\ timers' = timers
              /\ \E k \in 0..1 : SubSeq(turnQueue', 1, Len(turnQueue') - k) = turnQueue
        /\ Len(AgentTurns(liveTurns')) > Len(AgentTurns(liveTurns)) =>
              \/ last'.op = "onEvent" /\ timers = {}
              \/ last'.op = "D1" /\ Cardinality(timers) = 1 ]_vars

\* a turn arrived while another was dwelling and was queued behind it
C22_Witness ==
    /\ last.op = "onEvent"
    /\ last.timerWas = "D1"
    /\ Len(turnQueue) = last.queueWas + 1
    /\ Cardinality(timers) = 1

(***************************************************************************)
(* The scheduler fed with whatever JSON.parse returns: ws.ts casts the     *)
(* parsed value to WsEvent without looking at it.                          *)
(***************************************************************************)
\* decoded objects whose tag is none of "state", "turn", "round"
OtherEvents == { [type |-> "ping"] }

RouteDeliver ==
    /\ UNCHANGED << running, wsVars, timedVars, ttsVars >>
    /\ mounted
    /\ received < MaxEvents
    /\ \E event \in WsEvents \cup OtherEvents :
        /\ (event.type = "turn" /\ event.turn.speaker_id # "human")
               => Len(turnQueue) < MaxQueue
        /\ Receive(event)

NextRoute ==
    \/ RouteDeliver
    \/ TurnDwellExpires
    \/ FinalizeExpires

SpecRoute == Init /\ [][NextRoute]_vars

\* C23: a state event changes only the snapshot; a turn event touches
\* neither the snapshot, the feed nor the pending round; the pending round
\* changes on arrival only for an event tagged "round"; an event with any
\* other tag changes nothing of the scheduler.
C23_RoutedByTag ==
    [][ last'.op = "onEvent" =>
            /\ last'.arg.type = "state" =>
                  UNCHANGED << feed, liveTurns, turnQueue, pendingRound, displayTimer,
                               timers, showReactions >>
            /\ last'.arg.type = "turn" => UNCHANGED << state, feed, pendingRound >>
            /\ pendingRound' # pendingRound => last'.arg.type = "round"
            /\ last'.arg.type \notin {"state", "turn", "round"} =>
                  UNCHANGED << state, feed, liveTurns, turnQueue, pendingRound,
                               displayTimer, timers, showReactions >> ]_vars

\* the round events the scheduler still holds for finalization: the pending
\* one and the one captured by a scheduled D2 timeout
HeldRounds ==
    (IF pendingRound # NoRound /\ "round_result" \in DOMAIN pendingRound
     THEN {pendingRound.round_result.round_number} ELSE {})
    \cup {t.ev.round_result.round_number : t \in {u \in timers : u.kind = "D2"}}

\* C24: for an ordered stream and with no reset or teardown, every round
\* whose event has arrived is in the feed, once, or is still held for
\* finalization; none has been overwritten and lost.
C24_NoRoundLost ==
    (mounted /\ Orderly) =>
        /\ \A r \in SeqToSet(RoundsArrived) : r \in SeqToSet(FeedRounds) \cup HeldRounds
        /\ \A i, j \in DOMAIN feed : FeedRounds[i] = FeedRounds[j] => i = j

\* C25: for an ordered stream and with no teardown, whenever the queue is
\* not empty a timeout is scheduled, so that the queued turns are revealed by
\* timer expiry alone.
C25_QueuedTurnsHaveTimer ==
    (mounted /\ Orderly) => (turnQueue # <<>> => timers # {})

\* C26: while the reactions show, liveTurns holds no agent turn: a step that
\* adds an agent turn to liveTurns leaves the reactions hidden, and the
\* reactions come to show only in a D2 expiry, which leaves no agent turn.
C26_ReactionsExcludeAgentTurns ==
    [][ /\ showReactions' => AgentTurns(liveTurns') = <<>>
        /\ Len(AgentTurns(liveTurns')) > Len(AgentTurns(liveTurns)) => ~showReactions'
        /\ (showReactions' /\ ~showReactions) => last'.op = "D2" ]_vars

\* a finalization has just taken agent turns off the display
C26_Witness ==
    /\ showReactions
    /\ last.op = "D2"
    /\ last.liveWas > Len(liveTurns)
    /\ AgentTurns(liveTurns) = <<>>

\* C27: the expiry of a D2 timeout installs the snapshot of the round event
\* captured when the timeout was set, and appends that event, whatever state
\* or round events arrived while it was scheduled.
C27_CapturedSnapshotApplied ==
    [][ last'.op = "D2" =>
            \E t \in timers :
                /\ t.kind = "D2"
                /\ state' = t.ev.state_snapshot
                /\ feed' = Append(feed, t.ev) ]_vars

\* round 1 was finalized with its own snapshot although the event of round 2
\* arrived while its D2 timeout was scheduled
C27_Witness ==
    /\ last.op = "D2"
    /\ stream = << RoundToken(1), RoundToken(2) >>
    /\ feed = << RoundEvent(1) >>
    /\ state = Snapshot(1)

(***************************************************************************)
(* The transport client's sockets, timers and callbacks.                   *)
(***************************************************************************)
\* C28: connect() never replaces a socket that is connecting or open, so the
\* socket held in the variable socket is the only one that can be; at most
\* one reconnect timeout is pending, and none while that socket is connecting
\* or open.
C28_OneSocketOneTimer ==
    /\ ~orphaned
    /\ Cardinality(wsTimers) <= 1
    /\ wsTimers # {} => socket \notin {"CONNECTING", "OPEN"}

\* the second reconnect in a row is pending
C28_Witness == active /\ wsTimers # {} /\ socket = "CLOSED" /\ attempt = 2

\* C29: a step taken after the teardown has returned invokes no callback
\* other than onStatus("disconnected"), and only as the socket the teardown
\* closed reaches CLOSED.
C29_SilentAfterTeardown ==
    [][ (~active /\ wsLast'.calls # << >>) =>
            /\ \A i \in DOMAIN wsLast'.calls :
                  wsLast'.calls[i] = [fn |-> "onStatus", arg |-> [status |-> "disconnected"]]
            /\ wsLast'.op \in CloseOps
            /\ socket = "CLOSING" /\ socket' = "CLOSED" ]_vars

\* the socket the teardown closed has reported its close
C29_Witness ==
    /\ ~active
    /\ wsLast.op \in CloseOps
    /\ wsLast.socketWas = "CLOSING"
    /\ wsLast.calls # << >>
    /\ connection = "disconnected"

(***************************************************************************)
(* useTTS on its own: speak() and stop() are called at any moment, fetches *)
(* complete in any order, and the Audio elements fire their events.        *)
(***************************************************************************)
TtsFrame == UNCHANGED << progVars, histVars, running, wsVars, timedVars >>

Speak ==
    /\ generationRef < MaxGenerations
    /\ TtsSet(speakStart(TtsCur))
    /\ ttsLast' = [op |-> "speak", gen |-> generationRef + 1]
    /\ TtsFrame

Stop ==
    /\ generationRef < MaxGenerations
    /\ TtsSet(stop(TtsCur))
    /\ ttsLast' = [op |-> "stop", gen |-> generationRef + 1]
    /\ TtsFrame

FetchResolves ==
    /\ \E g \in DOMAIN calls :
        /\ calls[g].phase = "fetching"
        /\ TtsSet(speakFetched(TtsCur, g))
        /\ ttsLast' = [op |-> "fetched", gen |-> g]
    /\ TtsFrame

FetchRejects ==
    /\ \E g \in DOMAIN calls :
        /\ calls[g].phase = "fetching"
        /\ TtsSet(speakFetchFailed(TtsCur, g))
        /\ ttsLast' = [op |-> "fetchFailed", gen |-> g]
    /\ TtsFrame

\* playback begins: the promise of play() is fulfilled
PlayStarts ==
    /\ \E g \in DOMAIN calls :
        /\ calls[g].phase = "starting"
        /\ calls' = [calls EXCEPT ![g].phase = "playing"]
        /\ ttsLast' = [op |-> "playing", gen |-> g]
    /\ UNCHANGED << audioRef, generationRef >>
    /\ TtsFrame

PlayRejects ==
    /\ \E g \in DOMAIN calls :
        /\ calls[g].phase = "starting"
        /\ TtsSet(playRejected(TtsCur, g))
        /\ ttsLast' = [op |-> "playRejected", gen |-> g]
    /\ TtsFrame

\* a playing element reaches its end
AudioEnds ==
    /\ \E g \in DOMAIN calls :
        /\ calls[g].phase = "playing"
        /\ TtsSet(onended(TtsCur, g))
        /\ ttsLast' = [op |-> "onended", gen |-> g]
    /\ TtsFrame

\* an element fails to load or decode, whether or not it was paused meanwhile
AudioErrors ==
    /\ \E g \in DOMAIN calls :
        /\ calls[g].phase \in {"starting", "playing", "paused"}
        /\ TtsSet(onerrorAudio(TtsCur, g))
        /\ ttsLast' = [op |-> "onerror", gen |-> g]
    /\ TtsFrame

NextTts ==
    \/ Speak
    \/ Stop
    \/ FetchResolves
    \/ FetchRejects
    \/ PlayStarts
    \/ PlayRejects
    \/ AudioEnds
    \/ AudioErrors

SpecTts == Init /\ [][NextTts]_vars

\* C30: a speak() call whose fetch completed after a later speak() or stop()
\* has never called audio.play() and never invoked onEnd; and audioRef holds
\* nothing or the Audio of the call of the current generation, whose fetch
\* was not superseded.
C30_StaleSpeakIsSilent ==
    /\ \A g \in DOMAIN calls :
          calls[g].stale =>
              /\ ~calls[g].played
              /\ calls[g].ends = 0
              /\ audioRef # g
    /\ audioRef # NoAudio =>
          /\ audioRef = generationRef
          /\ calls[audioRef].phase \in {"starting", "playing", "blocked"}

\* the fetches of two calls completed in the reverse order: the later call
\* holds audioRef, the earlier one was discarded when its fetch arrived
C30_Witness ==
    \E g, h \in DOMAIN calls :
        /\ g < h
        /\ calls[g].stale /\ calls[g].phase = "discarded"
        /\ audioRef = h
        /\ ttsLast = [op |-> "fetched", gen |-> g]

====
